---- MODULE Spec2Model ----
(***************************************************************************)
(* Model of src/helper_functions.py: load_data, get_openai_api_key and     *)
(* embed_documents.  A behaviour is one invocation of one of the three     *)
(* functions against an environment (a directory, a key file, a client)    *)
(* fixed in the initial state.  File names and extensions are sequences of *)
(* one-character strings so that globbing and Path.stem are computed.      *)
(***************************************************************************)
EXTENDS Integers, Sequences, FiniteSets, TLC

VARIABLES
    op,               \* the function being invoked
    pc,               \* position inside that function
    dirState,         \* data_dir: "ok", "missing" or "unreadable"
    entries,          \* data_dir's entries: file name -> entry
    ext,              \* load_data's ext argument
    todo,             \* paths the glob iterator has still to yield
    file_path,        \* load_data's loop variable
    documents,        \* load_data's documents list
    documents_ids,    \* load_data's documents_ids list
    openLog,          \* every open() attempted by the call, in order
    handles,          \* file handles currently open
    keyFile,          \* the file at get_openai_api_key's file_path
    parsed,           \* the value json.load produced
    emb_documents,    \* embed_documents' documents argument
    embedding_model,  \* embed_documents' embedding_model argument
    calls,            \* calls observed by openai_client.embeddings.create
    response,         \* what the client returned
    raised,           \* exception in flight
    retval,           \* value of a return statement whose with block is exiting
    result,           \* value returned to the caller
    error             \* exception that reached the caller

vars == <<op, pc, dirState, entries, ext, todo, file_path, documents,
          documents_ids, openLog, handles, keyFile, parsed, emb_documents,
          embedding_model, calls, response, raised, retval, result, error>>

loadVars == <<dirState, entries, ext, todo, file_path, documents,
              documents_ids, openLog>>
keyVars == <<keyFile, parsed>>
embedVars == <<emb_documents, embedding_model, calls, response>>

----------------------------------------------------------------------------
(* Bounds *)

MaxEntries == 3
MaxPairs == 2
MaxDocs == 2

----------------------------------------------------------------------------
(* Values *)

NoError == "none"
NoResult == [kind |-> "none"]
NoPath == <<>>
KeyPath == <<"k", ".", "j">>

Names ==
    { <<"a", ".", "t">>,            \* a.t
      <<".", "t">>,                 \* .t
      <<"a", ".", "b", ".", "t">>,  \* a.b.t
      <<".", "a", ".", "t">>,       \* .a.t
      <<"a", ".", "b">>,            \* a.b
      <<"a", "t">> }                \* at

Exts == { <<"t">>, <<"b", ".", "t">> }

Contents == {"x", "y"}

EntryKinds ==
    [kind : {"file"}, text : Contents]
        \cup { [kind |-> "noaccess", text |-> ""],
               [kind |-> "undecodable", text |-> ""] }

Directories ==
    UNION { [S -> EntryKinds] :
            S \in { T \in SUBSET Names : Cardinality(T) <= MaxEntries } }

JsonKeys == {"secret_key", "other"}

JsonValues ==
    { [kind |-> "str", v |-> "abc123"],
      [kind |-> "str", v |-> ""],
      [kind |-> "null", v |-> ""] }

JsonPairs == JsonKeys \X JsonValues

PairSeqs == UNION { [1..n -> JsonPairs] : n \in 0..MaxPairs }

JsonDocs ==
    [kind : {"object"}, pairs : PairSeqs]
        \cup [kind : {"invalid", "array", "string", "number", "null"},
              pairs : {<<>>}]

KeyFiles ==
    [kind : {"text"}, doc : JsonDocs]
        \cup [kind : {"missing", "undecodable"},
              doc : {[kind |-> "invalid", pairs |-> <<>>]}]

Docs == {"d1", "d2"}
DocLists == UNION { [1..n -> Docs] : n \in 0..MaxDocs }
Models == {"m1", "m2"}
Embeddings == {"e1"}
Responses ==
    [kind : {"list", "CreateEmbeddingResponse"},
     data : UNION { [1..n -> Embeddings] : n \in 0..MaxDocs }]
ClientErrors == {"AuthenticationError", "RateLimitError"}

----------------------------------------------------------------------------
(* Library functions the code calls *)

RECURSIVE FnMatch(_, _)
FnMatch(pat, name) ==
    IF pat = <<>> THEN name = <<>>
    ELSE IF Head(pat) = "*"
         THEN \/ FnMatch(Tail(pat), name)
              \/ name # <<>> /\ FnMatch(pat, Tail(name))
         ELSE /\ name # <<>>
              /\ Head(name) = Head(pat)
              /\ FnMatch(Tail(pat), Tail(name))

GlobPattern(e) == <<"*", ".">> \o e

GlobAll(state, ents, e) ==
    IF state = "ok" THEN DOMAIN ents ELSE {}

Glob(state, ents, e) ==
    IF state = "ok"
    THEN { n \in DOMAIN ents : FnMatch(GlobPattern(e), n) }
    ELSE {}

RFind(name, c) ==
    LET hits == { i \in 1..Len(name) : name[i] = c }
    IN IF hits = {} THEN 0 ELSE CHOOSE i \in hits : \A j \in hits : j <= i

StemWhole(name) == name

Stem(name) ==
    LET i == RFind(name, ".")
    IN IF 1 < i /\ i < Len(name) THEN SubSeq(name, 1, i - 1) ELSE name

DataFrame(ids, texts) == [kind |-> "DataFrame", id |-> ids, text |-> texts]

WithExitLeak(hs, h) == hs

WithExit(hs, h) == hs \ {h}

EmptyDict == [k \in {} |-> NoResult]

RECURSIVE DictFirstWins(_)
DictFirstWins(pairs) ==
    IF pairs = <<>> THEN EmptyDict
    ELSE LET d == DictFirstWins(Tail(pairs))
             first == Head(pairs)
         IN [k \in DOMAIN d \cup {first[1]} |->
                IF k = first[1] THEN first[2] ELSE d[k]]

RECURSIVE DictFromPairs(_)
DictFromPairs(pairs) ==
    IF pairs = <<>> THEN EmptyDict
    ELSE LET n == Len(pairs)
             d == DictFromPairs(SubSeq(pairs, 1, n - 1))
             last == pairs[n]
         IN [k \in DOMAIN d \cup {last[1]} |->
                IF k = last[1] THEN last[2] ELSE d[k]]

JsonLoads(doc) ==
    CASE doc.kind = "object" -> [type |-> "dict", items |-> DictFromPairs(doc.pairs)]
      [] doc.kind = "array" -> [type |-> "list", items |-> EmptyDict]
      [] doc.kind = "string" -> [type |-> "str", items |-> EmptyDict]
      [] doc.kind = "number" -> [type |-> "int", items |-> EmptyDict]
      [] OTHER -> [type |-> "NoneType", items |-> EmptyDict]

SubscriptGet(obj, k) ==
    IF obj.type = "dict"
    THEN IF k \in DOMAIN obj.items
         THEN [raises |-> NoError, value |-> obj.items[k]]
         ELSE [raises |-> NoError, value |-> [kind |-> "null", v |-> ""]]
    ELSE [raises |-> "TypeError", value |-> NoResult]

Subscript(obj, k) ==
    IF obj.type = "dict"
    THEN IF k \in DOMAIN obj.items
         THEN [raises |-> NoError, value |-> obj.items[k]]
         ELSE [raises |-> "KeyError", value |-> NoResult]
    ELSE [raises |-> "TypeError", value |-> NoResult]

ReturnedData(resp) == [kind |-> "list", data |-> resp.data]

ReturnedValue(resp) == resp

----------------------------------------------------------------------------
(* Initial states: one invocation, with its environment *)

Idle ==
    /\ pc = "idle"
    /\ todo = {}
    /\ file_path = NoPath
    /\ documents = <<>>
    /\ documents_ids = <<>>
    /\ openLog = <<>>
    /\ handles = {}
    /\ parsed = [type |-> "NoneType", items |-> EmptyDict]
    /\ calls = <<>>
    /\ response = NoResult
    /\ raised = NoError
    /\ retval = NoResult
    /\ result = NoResult
    /\ error = NoError

NoDirectory ==
    /\ dirState = "missing"
    /\ entries = [n \in {} |-> [kind |-> "noaccess", text |-> ""]]
    /\ ext = <<"t">>

NoKeyFile ==
    keyFile = [kind |-> "missing", doc |-> [kind |-> "invalid", pairs |-> <<>>]]

NoClient ==
    /\ emb_documents = <<>>
    /\ embedding_model = "m1"

InitLoad ==
    /\ op = "load_data"
    /\ \/ /\ dirState \in {"ok", "unreadable"}
          /\ entries \in Directories
       \/ /\ dirState = "missing"
          /\ entries = [n \in {} |-> [kind |-> "noaccess", text |-> ""]]
    /\ ext \in Exts
    /\ NoKeyFile
    /\ NoClient
    /\ Idle

InitKey ==
    /\ op = "get_openai_api_key"
    /\ keyFile \in KeyFiles
    /\ NoDirectory
    /\ NoClient
    /\ Idle

InitEmbed ==
    /\ op = "embed_documents"
    /\ emb_documents \in DocLists
    /\ embedding_model \in Models
    /\ NoDirectory
    /\ NoKeyFile
    /\ Idle

Init == InitLoad \/ InitKey \/ InitEmbed

----------------------------------------------------------------------------
(* load_data *)

LoadCall ==
    /\ op = "load_data"
    /\ pc = "idle"
    /\ documents' = <<>>
    /\ documents_ids' = <<>>
    /\ todo' = Glob(dirState, entries, ext)
    /\ pc' = "for"
    /\ UNCHANGED <<op, dirState, entries, ext, file_path, openLog, handles,
                   keyVars, embedVars, raised, retval, result, error>>

LoadOpen ==
    /\ op = "load_data"
    /\ pc = "for"
    /\ \E p \in todo :
        /\ file_path' = p
        /\ todo' = todo \ {p}
        /\ openLog' = Append(openLog, p)
        /\ IF entries[p].kind = "noaccess"
           THEN /\ error' = "OSError"
                /\ pc' = "failed"
                /\ UNCHANGED handles
           ELSE /\ handles' = handles \cup {p}
                /\ pc' = "opened"
                /\ UNCHANGED error
    /\ UNCHANGED <<op, dirState, entries, ext, documents, documents_ids,
                   keyVars, embedVars, raised, retval, result>>

LoadReadSkipErrors ==
    /\ op = "load_data"
    /\ pc = "opened"
    /\ IF entries[file_path].kind = "undecodable"
       THEN UNCHANGED <<documents, documents_ids>>
       ELSE /\ documents' = Append(documents, entries[file_path].text)
            /\ documents_ids' = Append(documents_ids, Stem(file_path))
    /\ pc' = "with_exit"
    /\ UNCHANGED <<op, dirState, entries, ext, todo, file_path, openLog,
                   handles, keyVars, embedVars, raised, retval, result, error>>

LoadRead ==
    /\ op = "load_data"
    /\ pc = "opened"
    /\ IF entries[file_path].kind = "undecodable"
       THEN /\ raised' = "UnicodeDecodeError"
            /\ UNCHANGED <<documents, documents_ids>>
       ELSE /\ documents' = Append(documents, entries[file_path].text)
            /\ documents_ids' = Append(documents_ids, Stem(file_path))
            /\ UNCHANGED raised
    /\ pc' = "with_exit"
    /\ UNCHANGED <<op, dirState, entries, ext, todo, file_path, openLog,
                   handles, keyVars, embedVars, retval, result, error>>

LoadWithExit ==
    /\ op = "load_data"
    /\ pc = "with_exit"
    /\ handles' = WithExit(handles, file_path)
    /\ IF raised # NoError
       THEN /\ error' = raised
            /\ pc' = "failed"
       ELSE /\ pc' = "for"
            /\ UNCHANGED error
    /\ UNCHANGED <<op, loadVars, keyVars, embedVars, raised, retval, result>>

LoadReturn ==
    /\ op = "load_data"
    /\ pc = "for"
    /\ todo = {}
    /\ result' = DataFrame(documents_ids, documents)
    /\ pc' = "returned"
    /\ UNCHANGED <<op, loadVars, handles, keyVars, embedVars, raised, retval,
                   error>>

----------------------------------------------------------------------------
(* get_openai_api_key *)

KeyOpen ==
    /\ op = "get_openai_api_key"
    /\ pc = "idle"
    /\ IF keyFile.kind = "missing"
       THEN /\ error' = "FileNotFoundError"
            /\ pc' = "failed"
            /\ UNCHANGED <<handles, openLog>>
       ELSE /\ handles' = handles \cup {KeyPath}
            /\ openLog' = Append(openLog, KeyPath)
            /\ pc' = "opened"
            /\ UNCHANGED error
    /\ UNCHANGED <<op, dirState, entries, ext, todo, file_path, documents,
                   documents_ids, keyVars, embedVars, raised, retval, result>>

KeyLoad ==
    /\ op = "get_openai_api_key"
    /\ pc = "opened"
    /\ IF keyFile.kind = "undecodable"
       THEN /\ raised' = "UnicodeDecodeError"
            /\ pc' = "with_exit"
            /\ UNCHANGED parsed
       ELSE IF keyFile.doc.kind = "invalid"
       THEN /\ raised' = "JSONDecodeError"
            /\ pc' = "with_exit"
            /\ UNCHANGED parsed
       ELSE /\ parsed' = JsonLoads(keyFile.doc)
            /\ pc' = "loaded"
            /\ UNCHANGED raised
    /\ UNCHANGED <<op, loadVars, handles, keyFile, embedVars, retval, result,
                   error>>

KeySubscript ==
    /\ op = "get_openai_api_key"
    /\ pc = "loaded"
    /\ LET r == Subscript(parsed, "secret_key")
       IN /\ raised' = r.raises
          /\ retval' = r.value
    /\ pc' = "with_exit"
    /\ UNCHANGED <<op, loadVars, handles, keyVars, embedVars, result, error>>

KeyWithExit ==
    /\ op = "get_openai_api_key"
    /\ pc = "with_exit"
    /\ handles' = WithExit(handles, KeyPath)
    /\ IF raised # NoError
       THEN /\ error' = raised
            /\ pc' = "failed"
            /\ UNCHANGED result
       ELSE /\ result' = retval
            /\ pc' = "returned"
            /\ UNCHANGED error
    /\ UNCHANGED <<op, loadVars, keyVars, embedVars, raised, retval>>

----------------------------------------------------------------------------
(* embed_documents and the client it is handed *)

EmbedCall ==
    /\ op = "embed_documents"
    /\ pc = "idle"
    /\ calls' = Append(calls, [input |-> emb_documents,
                               model |-> embedding_model])
    /\ pc' = "calling"
    /\ UNCHANGED <<op, loadVars, handles, keyVars, emb_documents,
                   embedding_model, response, raised, retval, result, error>>

ClientReturns ==
    /\ op = "embed_documents"
    /\ pc = "calling"
    /\ \E r \in Responses : response' = r
    /\ pc' = "client_returned"
    /\ UNCHANGED <<op, loadVars, handles, keyVars, emb_documents,
                   embedding_model, calls, raised, retval, result, error>>

ClientRaises ==
    /\ op = "embed_documents"
    /\ pc = "calling"
    /\ \E e \in ClientErrors : raised' = e
    /\ pc' = "client_raised"
    /\ UNCHANGED <<op, loadVars, handles, keyVars, embedVars, retval, result,
                   error>>

EmbedReturn ==
    /\ op = "embed_documents"
    /\ pc = "client_returned"
    /\ result' = ReturnedValue(response)
    /\ pc' = "returned"
    /\ UNCHANGED <<op, loadVars, handles, keyVars, embedVars, raised, retval,
                   error>>

EmbedRetry ==
    /\ op = "embed_documents"
    /\ pc = "client_raised"
    /\ IF Len(calls) < 2
       THEN /\ calls' = Append(calls, [input |-> emb_documents,
                                       model |-> embedding_model])
            /\ raised' = NoError
            /\ pc' = "calling"
            /\ UNCHANGED error
       ELSE /\ error' = raised
            /\ pc' = "failed"
            /\ UNCHANGED <<calls, raised>>
    /\ UNCHANGED <<op, loadVars, handles, keyVars, emb_documents,
                   embedding_model, response, retval, result>>

EmbedPropagate ==
    /\ op = "embed_documents"
    /\ pc = "client_raised"
    /\ error' = raised
    /\ pc' = "failed"
    /\ UNCHANGED <<op, loadVars, handles, keyVars, embedVars, raised, retval,
                   result>>

----------------------------------------------------------------------------

Next ==
    \/ LoadCall
    \/ LoadOpen
    \/ LoadRead
    \/ LoadWithExit
    \/ LoadReturn
    \/ KeyOpen
    \/ KeyLoad
    \/ KeySubscript
    \/ KeyWithExit
    \/ EmbedCall
    \/ ClientReturns
    \/ ClientRaises
    \/ EmbedReturn
    \/ EmbedPropagate

Spec == Init /\ [][Next]_vars

----------------------------------------------------------------------------
(* Vocabulary of the properties *)

Terminal == pc \in {"returned", "failed"}

HasSuffix(name, suf) ==
    /\ Len(suf) <= Len(name)
    /\ SubSeq(name, Len(name) - Len(suf) + 1, Len(name)) = suf

DotExt == <<".">> \o ext

MatchingNames == { n \in DOMAIN entries : HasSuffix(n, DotExt) }

OtherNames == DOMAIN entries \ MatchingNames

LogSet == { openLog[i] : i \in 1..Len(openLog) }

LastPart(e) == SubSeq(e, RFind(e, ".") + 1, Len(e))

KeyDoc == keyFile.doc

KeyIndexes ==
    { i \in 1..Len(KeyDoc.pairs) : KeyDoc.pairs[i][1] = "secret_key" }

HasSecretKey == KeyDoc.kind = "object" /\ KeyIndexes # {}

StoredSecret ==
    KeyDoc.pairs[CHOOSE i \in KeyIndexes : \A j \in KeyIndexes : j <= i][2]

LoadReturned == op = "load_data" /\ pc = "returned" /\ dirState = "ok"

----------------------------------------------------------------------------
(* C1: for a readable directory with N entries matching '*.<ext>' and M    *)
(* other entries, the table load_data returns has the columns 'id' and     *)
(* 'text' and exactly N rows, one per matching entry and none for the M    *)
(* others; with N = 0 it has zero rows and still both columns.             *)
C1_OneRowPerMatchingFile ==
    LoadReturned =>
        /\ result.kind = "DataFrame"
        /\ {"id", "text"} \subseteq DOMAIN result
        /\ Len(result.id) = Cardinality(MatchingNames)
        /\ Len(result.text) = Cardinality(MatchingNames)
        /\ Len(openLog) = Cardinality(MatchingNames)
        /\ LogSet = MatchingNames

C1_Witness ==
    /\ LoadReturned
    /\ Cardinality(MatchingNames) >= 2
    /\ OtherNames # {}
    /\ Len(result.id) = Cardinality(MatchingNames)

(* C2 as stated: in every row, 'id' is the source file's name with         *)
(* '.<ext>' stripped and 'text' is the content of that same file, for      *)
(* every matching name, several dots or a leading dot included.            *)
C2_IdIsNameWithoutExt ==
    LoadReturned =>
        \A i \in 1..Len(result.id) :
            /\ result.id[i] \o DotExt = openLog[i]
            /\ result.text[i] = entries[openLog[i]].text

(* C2 amended: in every row 'text' is the content of the row's source file *)
(* and 'id' is that file's Path.stem: the name without its last            *)
(* '.<suffix>' (the part of ext after ext's last dot) when something       *)
(* precedes that dot, and the whole name for a file named '.<ext>'.        *)
C2_IdIsStemOfSameFile ==
    LoadReturned =>
        \A i \in 1..Len(result.id) :
            LET src == openLog[i]
                suffix == <<".">> \o LastPart(ext)
            IN /\ result.text[i] = entries[src].text
               /\ IF Len(src) > Len(suffix)
                  THEN result.id[i] \o suffix = src
                  ELSE result.id[i] = src

C2_Witness ==
    /\ LoadReturned
    /\ ext = <<"t">>
    /\ \E i, j \in 1..Len(result.id) :
        /\ openLog[i] = <<".", "t">>
        /\ result.id[i] = <<".", "t">>
        /\ openLog[j] = <<"a", ".", "b", ".", "t">>
        /\ result.id[j] = <<"a", ".", "b">>
        /\ result.text[i] # result.text[j]

(* C3: when data_dir does not exist or is unreadable, load_data fails with *)
(* a filesystem-access error and returns no table.                         *)
C3_BadDirectoryFails ==
    (op = "load_data" /\ dirState # "ok" /\ Terminal) =>
        /\ pc = "failed"
        /\ error = "OSError"
        /\ result = NoResult

(* C4: embed_documents calls the client's embedding operation exactly      *)
(* once, with exactly the given documents and model, and returns the       *)
(* client's result verbatim, also for an empty document list.              *)
C4_OneCallReturnedVerbatim ==
    op = "embed_documents" =>
        /\ Len(calls) <= 1
        /\ pc # "idle" =>
               calls = <<[input |-> emb_documents, model |-> embedding_model]>>
        /\ pc = "returned" => (result = response /\ error = NoError)

C4_Witness ==
    /\ op = "embed_documents"
    /\ pc = "returned"
    /\ emb_documents = <<>>
    /\ result.kind = "CreateEmbeddingResponse"
    /\ Len(calls) = 1

(* C5: when the client's embedding operation raises, embed_documents ends  *)
(* with that same error after exactly one call: the error is not caught,   *)
(* not replaced by a value and not followed by a retry.                    *)
C5_ClientErrorPropagates ==
    op = "embed_documents" =>
        /\ raised # NoError => pc \in {"client_raised", "failed"}
        /\ pc \in {"client_raised", "failed"} =>
               (raised \in ClientErrors /\ Len(calls) = 1 /\ result = NoResult)
        /\ pc = "failed" => error = raised

C5_Witness ==
    /\ op = "embed_documents"
    /\ pc = "failed"
    /\ error = "RateLimitError"
    /\ Len(calls) = 1

(* C6 as stated: for a readable file holding valid JSON without the key    *)
(* 'secret_key', get_openai_api_key fails with a missing-key error.        *)
C6_MissingKeyError ==
    (/\ op = "get_openai_api_key"
     /\ keyFile.kind = "text"
     /\ KeyDoc.kind # "invalid"
     /\ ~HasSecretKey
     /\ Terminal) =>
        /\ pc = "failed"
        /\ error = "KeyError"
        /\ result = NoResult

(* C6 amended: for a readable file holding valid JSON without the key      *)
(* 'secret_key', get_openai_api_key never returns a value: it fails with a *)
(* missing-key error when the document is an object and with a type error  *)
(* when it is an array, string, number or null.                            *)
C6_MissingKeyNeverReturns ==
    (/\ op = "get_openai_api_key"
     /\ keyFile.kind = "text"
     /\ KeyDoc.kind # "invalid"
     /\ ~HasSecretKey
     /\ Terminal) =>
        /\ pc = "failed"
        /\ error = IF KeyDoc.kind = "object" THEN "KeyError" ELSE "TypeError"
        /\ result = NoResult

C6_Witness ==
    /\ op = "get_openai_api_key"
    /\ pc = "failed"
    /\ error = "KeyError"
    /\ KeyDoc.kind = "object"
    /\ Len(KeyDoc.pairs) >= 1
    /\ ~HasSecretKey

(* C7: for a file holding a JSON object with a 'secret_key' field,         *)
(* get_openai_api_key returns exactly the value stored under 'secret_key'  *)
(* (the last one if the field is repeated), whatever other fields exist.   *)
C7_ReturnsStoredSecret ==
    (/\ op = "get_openai_api_key"
     /\ keyFile.kind = "text"
     /\ HasSecretKey
     /\ Terminal) =>
        /\ pc = "returned"
        /\ error = NoError
        /\ result = StoredSecret

C7_Witness ==
    /\ op = "get_openai_api_key"
    /\ pc = "returned"
    /\ result = [kind |-> "str", v |-> "abc123"]
    /\ \E i \in 1..Len(KeyDoc.pairs) : KeyDoc.pairs[i][1] = "other"

(* C8: embed_documents returns a list of embeddings with one entry for     *)
(* each document of the input list.                                        *)
C8_OneEmbeddingPerDocument ==
    (op = "embed_documents" /\ pc = "returned") =>
        /\ result.kind = "list"
        /\ Len(result.data) = Len(emb_documents)

(* C9: when opening or decoding the k-th matching file fails, load_data    *)
(* ends with that error: no table is returned, the k-1 rows collected so   *)
(* far are dropped, and no further file is opened.                         *)
C9_FirstFileErrorEndsCall ==
    op = "load_data" =>
        /\ \A i \in 1..Len(openLog) :
              entries[openLog[i]].kind # "file" =>
                  /\ i = Len(openLog)
                  /\ pc \in {"opened", "with_exit", "failed"}
                  /\ result = NoResult
                  /\ Len(documents) = i - 1
                  /\ pc = "failed" =>
                        error = IF entries[openLog[i]].kind = "noaccess"
                                THEN "OSError" ELSE "UnicodeDecodeError"
        /\ pc = "failed" =>
              /\ openLog # <<>>
              /\ entries[openLog[Len(openLog)]].kind # "file"
              /\ todo \cap LogSet = {}

C9_Witness ==
    /\ op = "load_data"
    /\ pc = "failed"
    /\ Len(openLog) = 2
    /\ Len(documents) = 1
    /\ todo # {}
    /\ result = NoResult

(* C10: load_data and get_openai_api_key never hold more than one open     *)
(* file handle, hold none between two files, and hold none once they have  *)
(* returned or failed, whatever the exit path.                             *)
C10_HandlesReleased ==
    op \in {"load_data", "get_openai_api_key"} =>
        /\ Cardinality(handles) <= 1
        /\ pc \in {"idle", "for", "returned", "failed"} => handles = {}
        /\ pc \in {"opened", "loaded", "with_exit"} =>
              handles = {openLog[Len(openLog)]}

C10_Witness ==
    /\ op = "load_data"
    /\ pc = "failed"
    /\ error = "UnicodeDecodeError"
    /\ Len(openLog) >= 2
    /\ handles = {}

====
